---- MODULE Spec2Model ----
(***************************************************************************)
(* Model of app/main.py: the questionnaire extractor.  Text is modelled as *)
(* TLA+ strings, one element per character; the regular expressions of the *)
(* source are operators that scan the characters as the regex engine does. *)
(***************************************************************************)
EXTENDS Integers, Sequences, FiniteSets, TLC

\* ------------------------------------------------------------------------
\* Bounds of the model
\* ------------------------------------------------------------------------
\* longest document explored exhaustively, in paragraphs
MaxLines == 3
\* longest table explored exhaustively, in data rows
MaxRows == 2

\* longest document of LiveSpec, in paragraphs
MaxLiveLines == 3

\* ------------------------------------------------------------------------
\* Characters
\* ------------------------------------------------------------------------
Ch(s, k) == SubSeq(s, k, k)

CharsOf(s) == {Ch(s, k) : k \in 1..Len(s)}

NBSP == " "

\* what \s matches and str.strip() removes
Whitespace == {" ", "\t", "\n", NBSP}

Digits == CharsOf("0123456789")

LowerLetters == "abcdefghijklmnopqrstuvwxyz"

UpperLetters == "ABCDEFGHIJKLMNOPQRSTUVWXYZ"

\* the character class [א-ת] (U+05D0..U+05EA)
HebrewLetters == CharsOf("אבגדהוזחטיךכלםמןנסעףפץצקרשת")

\* what \w matches
WordChars == CharsOf(LowerLetters) \cup CharsOf(UpperLetters) \cup Digits \cup {"_"} \cup HebrewLetters

IsSpace(c) == c \in Whitespace

\* the element of a set of one element.  An operator that uses a computed
\* text many times takes it as The({e : v \in {x}}), or \E v \in {x} : e, so
\* that x is computed once.
The(S) == CHOOSE v \in S : TRUE

\* index of the first character at or after k that is not whitespace (\s*)
RECURSIVE SkipSpaces(_, _)
SkipSpaces(s, k) ==
    IF k <= Len(s) /\ IsSpace(Ch(s, k)) THEN SkipSpaces(s, k + 1) ELSE k

\* index of the first character at or after k that is not a digit (\d*)
RECURSIVE SkipDigits(_, _)
SkipDigits(s, k) ==
    IF k <= Len(s) /\ Ch(s, k) \in Digits THEN SkipDigits(s, k + 1) ELSE k

\* index of the last character at or before k that is not whitespace
RECURSIVE LastNonSpace(_, _)
LastNonSpace(s, k) ==
    IF k >= 1 /\ IsSpace(Ch(s, k)) THEN LastNonSpace(s, k - 1) ELSE k

\* str.strip()
Strip(s) == The({SubSeq(v, SkipSpaces(v, 1), LastNonSpace(v, Len(v))) : v \in {s}})

\* s.replace(NBSP, " "), character by character
NbspPiece(s, k) == IF Ch(s, k) = NBSP THEN " " ELSE Ch(s, k)

\* re.sub(r"\s+", " ", s), character by character: every run of whitespace
\* becomes one space, written where the run starts
CollapsePiece(s, k) ==
    IF IsSpace(Ch(s, k))
    THEN (IF k > 1 /\ IsSpace(Ch(s, k - 1)) THEN "" ELSE " ")
    ELSE Ch(s, k)

\* str.lower(), character by character, on the letters the model uses
LowerPiece(s, k) ==
    IF \E n \in 1..Len(UpperLetters) : Ch(UpperLetters, n) = Ch(s, k)
    THEN Ch(LowerLetters, CHOOSE n \in 1..Len(UpperLetters) : Ch(UpperLetters, n) = Ch(s, k))
    ELSE Ch(s, k)

Piece(op, s, k) ==
    CASE op = "replace" -> NbspPiece(s, k)
      [] op = "collapse" -> CollapsePiece(s, k)
      [] op = "lower" -> LowerPiece(s, k)

\* the concatenation of Piece(op, s, k) for k = lo..hi, in order (split in
\* halves, so that the evaluation depth stays logarithmic in the length)
RECURSIVE JoinPieces(_, _, _, _)
JoinPieces(op, s, lo, hi) ==
    IF lo > hi THEN ""
    ELSE IF lo = hi THEN Piece(op, s, lo)
    ELSE LET mid == (lo + hi) \div 2
         IN JoinPieces(op, s, lo, mid) \o JoinPieces(op, s, mid + 1, hi)

ReplaceNbsp(s) == The({JoinPieces("replace", v, 1, Len(v)) : v \in {s}})

CollapseSpaces(s) == The({JoinPieces("collapse", v, 1, Len(v)) : v \in {s}})

Lower(s) == The({JoinPieces("lower", v, 1, Len(v)) : v \in {s}})

\* lines 46-51 without the .strip() at the end
clean_text_NoTrim(s) ==
    IF s = "" THEN "" ELSE CollapseSpaces(ReplaceNbsp(s))

clean_text(s) ==
    IF s = "" THEN "" ELSE Strip(CollapseSpaces(ReplaceNbsp(s)))

\* str.endswith
EndsWith(t, suffix) ==
    Len(t) >= Len(suffix) /\ SubSeq(t, Len(t) - Len(suffix) + 1, Len(t)) = suffix

\* substring test: `needle in t`
Contains(t, needle) ==
    \E k \in 1..(Len(t) - Len(needle) + 1) : SubSeq(t, k, k + Len(needle) - 1) = needle

\* re.search(r":\s*$", t)
EndsWithColon(t) ==
    LET k == LastNonSpace(t, Len(t)) IN k >= 1 /\ Ch(t, k) = ":"

\* ------------------------------------------------------------------------
\* Helpers of the source: patterns, classifier, prefix stripper, type
\* ------------------------------------------------------------------------
Delimiters == {")", ".", "-"}

\* U+2022 BULLET; written as U+25CF, since a TLA+ string cannot hold U+2022
BULLET == "●"

Bullets == {BULLET, "-", "*"}

\* A pattern is named by its kind.  PrefixMatchEnd(p, t) is the index of the
\* last character matched by the pattern at the start of t, 0 for no match.
\*   "num"    ^\s*\d+[\)\.\-]\s+
\*   "bullet" ^\s*[\u2022\-\*]\s+
\*   "heb"    ^\s*[א-ת]\)\s+
PrefixMatchEnd(p, t) ==
    LET a == SkipSpaces(t, 1)
        \* index of the first character after the marker, 0 when no marker
        m == CASE p = "num" ->
                    LET b == SkipDigits(t, a)
                    IN IF b > a /\ b <= Len(t) /\ Ch(t, b) \in Delimiters
                       THEN b + 1 ELSE 0
               [] p = "bullet" ->
                    IF a <= Len(t) /\ Ch(t, a) \in Bullets THEN a + 1 ELSE 0
               [] p = "heb" ->
                    IF a + 1 <= Len(t) /\ Ch(t, a) \in HebrewLetters /\ Ch(t, a + 1) = ")"
                    THEN a + 2 ELSE 0
    IN IF m > 0 /\ m <= Len(t) /\ IsSpace(Ch(t, m))
       THEN SkipSpaces(t, m) - 1
       ELSE 0

QUESTION_PATTERNS == <<"num", "bullet", "heb">>

ANSWER_PREFIX_PATTERNS == <<"bullet", "num", "heb">>

MULTI_CHOICE_HINTS ==
    <<"אפשר לבחור", "יותר מתשובה אחת", "מספר תשובות", "בחר/י עד", "בחרו עד", "סמן/י את כל">>

\* the alternatives of the keyword pattern of looks_like_question
QuestionKeywords == <<"עד כמה", "באיזו מידה", "מה דעתך", "למי תצביע", "האם", "כמה">>

\* \b at the gap before position k of t (between t[k-1] and t[k])
WordBoundary(t, k) ==
    LET before == k > 1 /\ k - 1 <= Len(t) /\ Ch(t, k - 1) \in WordChars
        after  == k >= 1 /\ k <= Len(t) /\ Ch(t, k) \in WordChars
    IN before # after

\* re.search(r"\b(kw1|kw2|...)\b", t) with the match starting at position k
KeywordAt(t, k) ==
    \E n \in 1..Len(QuestionKeywords) :
        LET kw == QuestionKeywords[n]
        IN /\ k + Len(kw) - 1 <= Len(t)
           /\ SubSeq(t, k, k + Len(kw) - 1) = kw
           /\ WordBoundary(t, k)
           /\ WordBoundary(t, k + Len(kw))

HasQuestionKeyword(t) == \E k \in 1..Len(t) : KeywordAt(t, k)

\* re.search(p, t)
Search(p, t) == PrefixMatchEnd(p, t) > 0

\* re.sub(p, "", t)
RemovePrefix(p, t) == SubSeq(t, PrefixMatchEnd(p, t) + 1, Len(t))

\* looks_like_question taking every numbered or bulleted line as a question,
\* whatever its length
looks_like_question_AnyNumbering(line) ==
    \E t \in {clean_text(line)} :
       IF Len(t) < 3 THEN FALSE
       ELSE IF EndsWith(t, "?") \/ EndsWithColon(t) THEN TRUE
       ELSE IF \E n \in 1..Len(QUESTION_PATTERNS) : Search(QUESTION_PATTERNS[n], t)
            THEN TRUE
       ELSE HasQuestionKeyword(t)

looks_like_question(line) ==
    \E t \in {clean_text(line)} :
       IF Len(t) < 3 THEN FALSE
       ELSE IF EndsWith(t, "?") \/ EndsWithColon(t) THEN TRUE
       ELSE IF \E n \in 1..Len(QUESTION_PATTERNS) :
                   /\ Search(QUESTION_PATTERNS[n], t)
                   /\ (Contains(t, "?") \/ EndsWithColon(t) \/ Len(t) >= 8)
            THEN TRUE
       ELSE HasQuestionKeyword(t)

RECURSIVE ApplyPatterns(_, _)
ApplyPatterns(ps, t) ==
    IF ps = <<>> THEN t
    ELSE The({ApplyPatterns(Tail(ps), u) : u \in {RemovePrefix(Head(ps), t)}})

strip_prefixes(s) ==
    The({clean_text(t) : t \in {ApplyPatterns(QUESTION_PATTERNS \o ANSWER_PREFIX_PATTERNS, s)}})

\* looks_like_answer taking lines of up to 60 characters as short answers
looks_like_answer_Upto60(line) ==
    \E t \in {clean_text(line)} :
       IF Len(t) < 1 THEN FALSE
       ELSE IF \E n \in 1..Len(ANSWER_PREFIX_PATTERNS) : Search(ANSWER_PREFIX_PATTERNS[n], t)
            THEN TRUE
       ELSE Len(t) <= 60 /\ ~looks_like_question(t) /\ ~EndsWith(t, "?")

looks_like_answer(line) ==
    \E t \in {clean_text(line)} :
       IF Len(t) < 1 THEN FALSE
       ELSE IF \E n \in 1..Len(ANSWER_PREFIX_PATTERNS) : Search(ANSWER_PREFIX_PATTERNS[n], t)
            THEN TRUE
       ELSE Len(t) <= 40 /\ ~looks_like_question(t) /\ ~EndsWith(t, "?")

\* infer_question_type looking for the hints before looking at the answers
infer_question_type_HintFirst(question_text, answers) ==
    The({ IF \E n \in 1..Len(MULTI_CHOICE_HINTS) : Contains(qt, MULTI_CHOICE_HINTS[n])
          THEN "multi_choice"
          ELSE IF answers = <<>> THEN "open"
          ELSE "single_choice" : qt \in {clean_text(question_text)} })

infer_question_type(question_text, answers) ==
    The({ IF answers = <<>> THEN "open"
          ELSE IF \E n \in 1..Len(MULTI_CHOICE_HINTS) : Contains(qt, MULTI_CHOICE_HINTS[n])
               THEN "multi_choice"
          ELSE "single_choice" : qt \in {clean_text(question_text)} })

\* re.split(r"[;\|]", s): the pieces between the separators, empty ones included
RECURSIVE SplitAnswers(_)
SplitAnswers(s) ==
    LET seps == {k \in 1..Len(s) : Ch(s, k) \in {";", "|"}}
    IN IF seps = {} THEN <<s>>
       ELSE LET k == CHOOSE k \in seps : \A j \in seps : k <= j
            IN <<SubSeq(s, 1, k - 1)>> \o SplitAnswers(SubSeq(s, k + 1, Len(s)))

RECURSIVE CleanAll(_)
CleanAll(ps) ==
    IF ps = <<>> THEN <<>> ELSE <<clean_text(Head(ps))>> \o CleanAll(Tail(ps))

NonEmpty(t) == t # ""

\* [clean_text(x) for x in re.split(r"[;\|]", answers_raw) if clean_text(x)]
TableAnswers(answers_raw) == SelectSeq(CleanAll(SplitAnswers(answers_raw)), NonEmpty)

\* row.get(key) of a csv.DictReader row, None written as "": the cell of the
\* last column named key (every use is `row.get(..) or ..`, where None and ""
\* behave alike)
RowGet(hs, row, key) ==
    LET cols == {j \in 1..Len(hs) : hs[j] = key}
    IN IF cols = {} THEN "" ELSE row[CHOOSE j \in cols : \A k \in cols : k <= j]

\* a or b or c or ""
FirstTruthy(vals) ==
    LET set == {k \in 1..Len(vals) : vals[k] # ""}
    IN IF set = {} THEN "" ELSE vals[CHOOSE k \in set : \A j \in set : k <= j]

\* the 0-based index of the last header among names (lower-cased), -1 for None
HeaderIndex(hs, names) ==
    LET cols == {j \in 1..Len(hs) : Lower(hs[j]) \in names}
    IN IF cols = {} THEN -1 ELSE (CHOOSE j \in cols : \A k \in cols : k <= j) - 1

\* TableRecord numbering the records from 0
TableRecord_FromZero(q, answers, src, rs) ==
    [ text    |-> q,
      type    |-> infer_question_type(q, answers),
      answers |-> answers,
      meta    |-> [source |-> src, question_index |-> Len(rs)] ]

\* the record the csv and xlsx parsers append
TableRecord(q, answers, src, rs) ==
    [ text    |-> q,
      type    |-> infer_question_type(q, answers),
      answers |-> answers,
      meta    |-> [source |-> src, question_index |-> Len(rs) + 1] ]

\* ------------------------------------------------------------------------
\* Inputs
\* ------------------------------------------------------------------------
\* paragraph texts (p.text) a document is built from
Lines ==
    { "2. What is your name?",
      "- Satisfied",
      "- Yes",
      "Yes",
      "This sentence only explains the options listed above",
      "סמן/י את כל התשובות:",
      "האם אתה מרוצה" }

ScenarioA ==
    << "1. How satisfied are you with the service?",
       "- Very satisfied",
       "- Satisfied",
       "- Not satisfied" >>

ScenarioB == << "Some unrelated heading", "2. What is your name?" >>

ScenarioD ==
    << "Background for the next item, please read it carefully. האם אתה מרוצה מהשירות?" >>

\* one question whose options repeat, with other options in between
ScenarioDup ==
    << "2. What is your name?", "Yes", "א) כן", "- - - a", "- Yes", "  *  Yes " >>

\* a numbered answer scale under a question, with an empty paragraph in it
ScenarioScale == << "האם אתה מרוצה", "1. Very good", "2. Good", "", "3. Bad" >>

\* a line that starts with four stacked numbers
ScenarioStacked == << "1. 2. 3. 4. text" >>

\* paragraphs with tabs, line ends, non-breaking spaces and runs of spaces;
\* the second one is whitespace only
ScenarioSpaces ==
    << "\t2.  What is" \o NBSP \o NBSP \o "your  name? \n",
       NBSP \o " \t",
       " - Yes" \o NBSP >>

\* a question wrapped over three paragraphs, an answer, and prose after it
ScenarioWrap ==
    << "2. What is your name?",
       "a?",
       "This sentence only explains the options listed above",
       "Yes",
       "b?",
       "This sentence only explains the options listed above" >>

\* every document of at most MaxLines paragraphs over Lines, and the scenarios
Docs ==
    {ScenarioA, ScenarioB, ScenarioD, ScenarioDup, ScenarioScale, ScenarioStacked, ScenarioSpaces,
     ScenarioWrap}
        \cup UNION {[1..n -> Lines] : n \in 0..MaxLines}

\* header rows of a table (two columns)
HeaderRows ==
    { <<"question", "answers">>,
      <<"Question", "Answers">>,
      <<"שאלה", "תשובות">>,
      <<"QUESTION", "answers">>,
      <<"id", "answers">>,
      <<"question", "Question">> }

\* data rows of a table (two cells, an empty cell written as "")
TableRows ==
    { <<"What is  your name?", "">>,
      <<"", "a;b">>,
      <<"  ", "a">>,
      <<"Pick one", "a; b |a">>,
      <<"סמן/י את כל התשובות", "x|y">>,
      <<"Q2:", " ; ">> }

\* every table of at most MaxRows data rows over TableRows
Tables == UNION {[1..n -> TableRows] : n \in 0..MaxRows}

Parsers == {"docx", "csv", "xlsx"}

DocxMime == "application/vnd.openxmlformats-officedocument.wordprocessingml.document"

SheetMime == "application/vnd.openxmlformats-officedocument.spreadsheetml.sheet"

\* uploads <<file.filename, file.content_type>> (None written as "") whose
\* content is explored in full
MainUploads ==
    { <<"q.docx", "">>,
      <<"data.csv", "text/csv">>,
      <<"book.xlsx", "">> }

\* uploads explored with one content each
OtherUploads ==
    { <<"Q.DOCX", "application/octet-stream">>,
      <<"", DocxMime>>,
      <<"data.csv", DocxMime>>,
      <<"export", "text/csv; charset=utf-8">>,
      <<"macro.xlsm", "">>,
      <<"sheet", SheetMime>>,
      <<"notes.txt", "text/plain">>,
      <<"q.docx.bak", "">>,
      <<"", "">> }

Uploads == MainUploads \cup OtherUploads

\* what the library of the chosen parser makes of the uploaded bytes
Containers == {"ok", "corrupt", "no_library"}

\* str(e) of the exception the parser raises
ErrorMessage(p, c) ==
    IF c = "no_library"
    THEN (IF p = "docx" THEN "python-docx is not installed. Add it to requirements.txt"
                        ELSE "openpyxl is not installed. Add it to requirements.txt")
    ELSE "File is not a zip file"

\* line 244: file.filename or "uploaded"
FilenameOf(fn) == IF fn = "" THEN "uploaded" ELSE fn

\* lines 247-249: the text after the last ".", lower-cased; "" without a "."
ExtOf(fn) ==
    LET dots == {k \in 1..Len(fn) : Ch(fn, k) = "."}
    IN IF dots = {} THEN ""
       ELSE Lower(SubSeq(fn, (CHOOSE k \in dots : \A j \in dots : j <= k) + 1, Len(fn)))

\* lines 252-258: the adapter the request selects, "none" for the else branch
ChooseParser(fn, ct) ==
    LET ext == ExtOf(FilenameOf(fn))
    IN IF ext = "docx" \/ ct = DocxMime THEN "docx"
       ELSE IF ext = "csv" \/ Contains(ct, "csv") THEN "csv"
       ELSE IF ext \in {"xlsx", "xlsm", "xltx", "xltm"} \/ Contains(ct, "spreadsheet") THEN "xlsx"
       ELSE "none"

\* ------------------------------------------------------------------------
\* State
\* ------------------------------------------------------------------------
VARIABLES
    filename,    \* extract_questions: file.filename, "" for None
    content_type, \* extract_questions: file.content_type, "" for None
    container,   \* whether the parser's library can read the uploaded bytes
    parser,      \* the parser that runs: "docx", "csv" or "xlsx"; "none" before
    exc,         \* extract_questions: str(e) of the exception caught, else ""
    response,    \* extract_questions: <<>> until it returns, else <<the response>>
    pc,          \* position in the request
    doc,         \* the texts of doc.paragraphs, in document order
    headers,     \* the header row of the table (csv fieldnames, xlsx row 1)
    rows,        \* the data rows of the table, in order
    r,           \* csv/xlsx: number of data rows consumed
    idx_q,       \* parse_xlsx_questions: 0-based question column, -1 for None
    idx_a,       \* parse_xlsx_questions: 0-based answers column, -1 for None
    out,         \* csv/xlsx: the emitted records
    paragraphs,  \* parse_docx_questions: cleaned, non-empty paragraphs
    i,           \* parse_docx_questions: line cursor (0-based, as in the source)
    current_q,   \* parse_docx_questions: <<>> for None, else <<[text, answers]>>
    questions    \* parse_docx_questions: the emitted records

vars == <<filename, content_type, container, parser, exc, response, pc, doc, headers, rows,
         r, idx_q, idx_a, out, paragraphs, i, current_q, questions>>

input == <<filename, content_type, container, doc, headers, rows>>

httpVars == <<parser, exc, response>>

docxVars == <<paragraphs, i, current_q, questions>>

tableVars == <<r, idx_q, idx_a, out>>

Range(f) == {f[k] : k \in DOMAIN f}

\* AnswersClean dropping an answer only when it repeats the one before it
RECURSIVE AnswersClean_Consecutive(_, _, _)
AnswersClean_Consecutive(answers, answers_clean, seen) ==
    IF answers = <<>> THEN answers_clean
    ELSE LET aa == strip_prefixes(Head(answers))
         IN IF aa = "" THEN AnswersClean_Consecutive(Tail(answers), answers_clean, seen)
            ELSE IF answers_clean # <<>> /\ aa = answers_clean[Len(answers_clean)]
                 THEN AnswersClean_Consecutive(Tail(answers), answers_clean, seen)
            ELSE AnswersClean_Consecutive(Tail(answers), Append(answers_clean, aa), seen \cup {aa})

\* the loop of flush_current over current_q["answers"]
RECURSIVE AnswersClean(_, _, _)
AnswersClean(answers, answers_clean, seen) ==
    IF answers = <<>> THEN answers_clean
    ELSE LET aa == strip_prefixes(Head(answers))
         IN IF aa = "" THEN AnswersClean(Tail(answers), answers_clean, seen)
            ELSE IF aa \in seen THEN AnswersClean(Tail(answers), answers_clean, seen)
            ELSE AnswersClean(Tail(answers), Append(answers_clean, aa), seen \cup {aa})

\* the record flush_current appends for the open question cq
DocxRecord(cq, qs) ==
    LET answers_clean == AnswersClean(cq.answers, <<>>, {})
        qtext == strip_prefixes(cq.text)
        qtype == infer_question_type(qtext, answers_clean)
    IN [ text    |-> qtext,
         type    |-> qtype,
         answers |-> answers_clean,
         meta    |-> [source |-> "docx", question_index |-> Len(qs) + 1] ]

\* flush_current without the early return of lines 119-120: an empty record
\* is appended when no question is open
flush_current_NoGuard(cq, qs) ==
    Append(qs, DocxRecord(IF cq = <<>> THEN [text |-> "", answers |-> <<>>] ELSE cq[1], qs))

\* flush_current: the value of `questions` after the call
flush_current(cq, qs) ==
    IF cq = <<>> THEN qs ELSE Append(qs, DocxRecord(cq[1], qs))

\* the request before extract_questions runs.  The content is the one the
\* selected parser will read: a document, a table, or nothing it can read.
Init ==
    /\ pc = "request"
    /\ parser = "none"
    /\ exc = ""
    /\ response = <<>>
    /\ \E u \in Uploads :
          /\ filename = u[1]
          /\ content_type = u[2]
          /\ LET p == ChooseParser(u[1], u[2])
             IN \/ /\ p = "docx"
                   /\ container = "ok"
                   /\ doc \in (IF u \in MainUploads THEN Docs ELSE {ScenarioB})
                   /\ headers = <<>> /\ rows = <<>>
                \/ /\ p \in {"csv", "xlsx"}
                   /\ container = "ok"
                   /\ doc = <<>>
                   /\ headers \in (IF u \in MainUploads THEN HeaderRows ELSE {<<"question", "answers">>})
                   /\ rows \in (IF u \in MainUploads THEN Tables ELSE {<< <<"Pick one", "a; b |a">> >>})
                \/ /\ p \in {"docx", "xlsx"}
                   /\ container \in {"corrupt", "no_library"}
                   /\ doc = <<>> /\ headers = <<>> /\ rows = <<>>
                \/ /\ p = "none"
                   /\ container = "ok"
                   /\ doc = <<>> /\ headers = <<>> /\ rows = <<>>
    /\ r = 0
    /\ idx_q = -1
    /\ idx_a = -1
    /\ out = <<>>
    /\ paragraphs = <<>>
    /\ i = 0
    /\ current_q = <<>>
    /\ questions = <<>>

\* lines 243-257: the extension or the content type selects a parser
DispatchParser ==
    /\ pc = "request"
    /\ ChooseParser(filename, content_type) # "none"
    /\ parser' = ChooseParser(filename, content_type)
    /\ pc' = "start"
    /\ UNCHANGED <<input, exc, response, tableVars, docxVars>>

\* lines 243-267: neither selects one: the 400 response, no parser runs
DispatchUnsupported ==
    /\ pc = "request"
    /\ ChooseParser(filename, content_type) = "none"
    /\ response' = << [ status_code |-> 400,
                        content |-> [ status       |-> "error",
                                      message      |-> "Unsupported file type. Please upload DOCX/CSV/XLSX.",
                                      filename     |-> FilenameOf(filename),
                                      content_type |-> content_type ] ] >>
    /\ pc' = "responded"
    /\ UNCHANGED <<input, parser, exc, tableVars, docxVars>>

\* lines 105-110: python-docx is missing or cannot open the bytes: raise
DocxRaise ==
    /\ pc = "start"
    /\ parser = "docx"
    /\ container # "ok"
    /\ exc' = ErrorMessage("docx", container)
    /\ pc' = "raised"
    /\ UNCHANGED <<input, parser, response, tableVars, docxVars>>

\* lines 201-206: openpyxl is missing or cannot open the bytes: raise
XlsxRaise ==
    /\ pc = "start"
    /\ parser = "xlsx"
    /\ container # "ok"
    /\ exc' = ErrorMessage("xlsx", container)
    /\ pc' = "raised"
    /\ UNCHANGED <<input, parser, response, tableVars, docxVars>>

\* lines 269-277 with questions_count taken from the lines read instead of
\* the questions returned
RespondParsed_CountLines ==
    /\ pc = "done"
    /\ LET result == IF parser = "docx" THEN questions ELSE out
       IN response' = << [ status_code |-> 200,
                           content |-> [ status          |-> "parsed",
                                         filename        |-> FilenameOf(filename),
                                         content_type    |-> content_type,
                                         questions_count |-> IF parser = "docx" THEN Len(paragraphs)
                                                                                ELSE Len(rows),
                                         questions       |-> result ] ] >>
    /\ pc' = "responded"
    /\ UNCHANGED <<input, parser, exc, tableVars, docxVars>>

\* lines 269-277: the parser returned: the "parsed" response
RespondParsed ==
    /\ pc = "done"
    /\ LET result == IF parser = "docx" THEN questions ELSE out
       IN response' = << [ status_code |-> 200,
                           content |-> [ status          |-> "parsed",
                                         filename        |-> FilenameOf(filename),
                                         content_type    |-> content_type,
                                         questions_count |-> Len(result),
                                         questions       |-> result ] ] >>
    /\ pc' = "responded"
    /\ UNCHANGED <<input, parser, exc, tableVars, docxVars>>

\* lines 279-288: the parser raised: the 500 response with the message
RespondError ==
    /\ pc = "raised"
    /\ response' = << [ status_code |-> 500,
                        content |-> [ status       |-> "error",
                                      filename     |-> FilenameOf(filename),
                                      content_type |-> content_type,
                                      message      |-> exc ] ] >>
    /\ pc' = "responded"
    /\ UNCHANGED <<input, parser, exc, tableVars, docxVars>>

\* lines 110-115, 147: read the paragraphs, clean them, drop the empty ones
DocxLoad ==
    /\ pc = "start"
    /\ parser = "docx"
    /\ container = "ok"
    /\ paragraphs' = SelectSeq(CleanAll(doc), NonEmpty)
    /\ questions' = <<>>
    /\ current_q' = <<>>
    /\ i' = 0
    /\ pc' = "outer"
    /\ UNCHANGED <<input, httpVars, tableVars>>

\* OuterQuestion opening the new question without flushing the open one
OuterQuestion_NoFlush ==
    /\ pc = "outer"
    /\ i < Len(paragraphs)
    /\ looks_like_question(paragraphs[i + 1])
    /\ current_q' = <<[text |-> paragraphs[i + 1], answers |-> <<>>]>>
    /\ i' = i + 1
    /\ pc' = "inner"
    /\ UNCHANGED <<input, httpVars, tableVars, paragraphs, questions>>

\* lines 148-155: the line looks like a question: flush and open a new one
OuterQuestion ==
    /\ pc = "outer"
    /\ i < Len(paragraphs)
    /\ LET line == paragraphs[i + 1]
       IN /\ looks_like_question(line)
          /\ questions' = flush_current(current_q, questions)
          /\ current_q' = <<[text |-> line, answers |-> <<>>]>>
    /\ i' = i + 1
    /\ pc' = "inner"
    /\ UNCHANGED <<input, httpVars, tableVars, paragraphs>>

\* lines 172-173 opening a question with the skipped line
OuterSkip_KeepLine ==
    /\ pc = "outer"
    /\ i < Len(paragraphs)
    /\ ~looks_like_question(paragraphs[i + 1])
    /\ i' = i + 1
    /\ current_q' = << [text |-> paragraphs[i + 1], answers |-> <<>>] >>
    /\ UNCHANGED <<input, httpVars, tableVars, pc, paragraphs, questions>>

\* lines 148-152, 172-173: no question starts here: skip the line
OuterSkip ==
    /\ pc = "outer"
    /\ i < Len(paragraphs)
    /\ ~looks_like_question(paragraphs[i + 1])
    /\ i' = i + 1
    /\ UNCHANGED <<input, httpVars, tableVars, pc, paragraphs, current_q, questions>>

\* lines 157-160 recording the line that starts the next question as an
\* answer of the open one before leaving the inner loop
InnerBreak_RecordLine ==
    /\ pc = "inner"
    /\ i < Len(paragraphs)
    /\ looks_like_question(paragraphs[i + 1])
    /\ pc' = "outer"
    /\ current_q' = <<[current_q[1] EXCEPT !.answers = Append(@, paragraphs[i + 1])]>>
    /\ UNCHANGED <<input, httpVars, tableVars, paragraphs, i, questions>>

\* lines 157-160, 170: the next line looks like a question: leave the inner loop
InnerBreak ==
    /\ pc = "inner"
    /\ i < Len(paragraphs)
    /\ looks_like_question(paragraphs[i + 1])
    /\ pc' = "outer"
    /\ UNCHANGED <<input, httpVars, tableVars, docxVars>>

\* lines 161-162 without the i += 1 of line 169
InnerAnswer_NoAdvance ==
    /\ pc = "inner"
    /\ i < Len(paragraphs)
    /\ LET nxt == paragraphs[i + 1]
       IN /\ ~looks_like_question(nxt)
          /\ looks_like_answer(nxt)
          /\ current_q' = <<[current_q[1] EXCEPT !.answers = Append(@, nxt)]>>
    /\ UNCHANGED <<input, httpVars, tableVars, pc, paragraphs, questions, i>>

\* lines 157-163, 169: the next line looks like an answer: collect it
InnerAnswer ==
    /\ pc = "inner"
    /\ i < Len(paragraphs)
    /\ LET nxt == paragraphs[i + 1]
       IN /\ ~looks_like_question(nxt)
          /\ looks_like_answer(nxt)
          /\ current_q' = <<[current_q[1] EXCEPT !.answers = Append(@, nxt)]>>
    /\ i' = i + 1
    /\ UNCHANGED <<input, httpVars, tableVars, pc, paragraphs, questions>>

\* lines 157-169 joining the line to the question text also when the
\* question has answers
InnerContinuation_AlwaysJoin ==
    /\ pc = "inner"
    /\ i < Len(paragraphs)
    /\ LET nxt == paragraphs[i + 1]
       IN /\ ~looks_like_question(nxt)
          /\ ~looks_like_answer(nxt)
          /\ current_q' =
                IF current_q # <<>>
                THEN <<[current_q[1] EXCEPT !.text = clean_text(@ \o " " \o nxt)]>>
                ELSE current_q
    /\ i' = i + 1
    /\ UNCHANGED <<input, httpVars, tableVars, pc, paragraphs, questions>>

\* lines 157-169: neither: joined to the question text while there is no answer
InnerContinuation ==
    /\ pc = "inner"
    /\ i < Len(paragraphs)
    /\ LET nxt == paragraphs[i + 1]
       IN /\ ~looks_like_question(nxt)
          /\ ~looks_like_answer(nxt)
          /\ current_q' =
                IF current_q # <<>> /\ current_q[1].answers = <<>>
                THEN <<[current_q[1] EXCEPT !.text = clean_text(@ \o " " \o nxt)]>>
                ELSE current_q
    /\ i' = i + 1
    /\ UNCHANGED <<input, httpVars, tableVars, pc, paragraphs, questions>>

\* lines 157, 170: the input ends inside the inner loop
InnerExhausted ==
    /\ pc = "inner"
    /\ i >= Len(paragraphs)
    /\ pc' = "outer"
    /\ UNCHANGED <<input, httpVars, tableVars, docxVars>>

\* FinalFlush without the flush of line 175
FinalFlush_NoFlush ==
    /\ pc = "outer"
    /\ i >= Len(paragraphs)
    /\ pc' = "done"
    /\ current_q' = <<>>
    /\ UNCHANGED <<input, httpVars, tableVars, paragraphs, i, questions>>

\* lines 148, 175-176: end of input: the last flush, and return
FinalFlush ==
    /\ pc = "outer"
    /\ i >= Len(paragraphs)
    /\ questions' = flush_current(current_q, questions)
    /\ current_q' = <<>>
    /\ pc' = "done"
    /\ UNCHANGED <<input, httpVars, tableVars, paragraphs, i>>

\* lines 183-185: open the reader
CsvLoad ==
    /\ pc = "start"
    /\ parser = "csv"
    /\ out' = <<>>
    /\ r' = 0
    /\ pc' = "csv_rows"
    /\ UNCHANGED <<input, httpVars, idx_q, idx_a, docxVars>>

\* line 187
CsvQuestion(row) ==
    clean_text(FirstTruthy(<<RowGet(headers, row, "question"),
                             RowGet(headers, row, "Question"),
                             RowGet(headers, row, "שאלה")>>))

\* line 190
CsvAnswersRaw(row) ==
    FirstTruthy(<<RowGet(headers, row, "answers"),
                  RowGet(headers, row, "Answers"),
                  RowGet(headers, row, "תשובות")>>)

\* lines 186-189: a row without a question is skipped
CsvSkipRow ==
    /\ pc = "csv_rows"
    /\ r < Len(rows)
    /\ CsvQuestion(rows[r + 1]) = ""
    /\ r' = r + 1
    /\ UNCHANGED <<input, httpVars, pc, idx_q, idx_a, out, docxVars>>

\* lines 186-197: a row with a question is emitted
CsvEmitRow ==
    /\ pc = "csv_rows"
    /\ r < Len(rows)
    /\ LET q == CsvQuestion(rows[r + 1])
           answers == TableAnswers(CsvAnswersRaw(rows[r + 1]))
       IN /\ q # ""
          /\ out' = Append(out, TableRecord(q, answers, "csv", out))
    /\ r' = r + 1
    /\ UNCHANGED <<input, httpVars, pc, idx_q, idx_a, docxVars>>

\* line 198
CsvReturn ==
    /\ pc = "csv_rows"
    /\ r >= Len(rows)
    /\ pc' = "done"
    /\ UNCHANGED <<input, httpVars, tableVars, docxVars>>

\* lines 206-222: read the header row; without a question column return []
XlsxLoad ==
    /\ pc = "start"
    /\ parser = "xlsx"
    /\ container = "ok"
    /\ LET hs == CleanAll(headers)
       IN /\ idx_q' = HeaderIndex(hs, {"question", "שאלה"})
          /\ idx_a' = HeaderIndex(hs, {"answers", "תשובות"})
    /\ out' = <<>>
    /\ r' = 0
    /\ pc' = IF idx_q' = -1 THEN "done" ELSE "xlsx_rows"
    /\ UNCHANGED <<input, httpVars, docxVars>>

\* line 224
XlsxQuestion(row) == clean_text(row[idx_q + 1])

\* lines 227-229
XlsxAnswers(row) ==
    IF idx_a # -1 /\ row[idx_a + 1] # "" THEN TableAnswers(row[idx_a + 1]) ELSE <<>>

\* lines 223-226: a row without a question is skipped
XlsxSkipRow ==
    /\ pc = "xlsx_rows"
    /\ r < Len(rows)
    /\ XlsxQuestion(rows[r + 1]) = ""
    /\ r' = r + 1
    /\ UNCHANGED <<input, httpVars, pc, idx_q, idx_a, out, docxVars>>

\* lines 223-235: a row with a question is emitted
XlsxEmitRow ==
    /\ pc = "xlsx_rows"
    /\ r < Len(rows)
    /\ LET q == XlsxQuestion(rows[r + 1])
       IN /\ q # ""
          /\ out' = Append(out, TableRecord(q, XlsxAnswers(rows[r + 1]), "xlsx", out))
    /\ r' = r + 1
    /\ UNCHANGED <<input, httpVars, pc, idx_q, idx_a, docxVars>>

\* line 236
XlsxReturn ==
    /\ pc = "xlsx_rows"
    /\ r >= Len(rows)
    /\ pc' = "done"
    /\ UNCHANGED <<input, httpVars, tableVars, docxVars>>

Next ==
    \/ DispatchParser
    \/ DispatchUnsupported
    \/ DocxRaise
    \/ XlsxRaise
    \/ RespondParsed
    \/ RespondError
    \/ DocxLoad
    \/ OuterQuestion
    \/ OuterSkip
    \/ InnerBreak
    \/ InnerAnswer
    \/ InnerContinuation
    \/ InnerExhausted
    \/ FinalFlush
    \/ CsvLoad
    \/ CsvSkipRow
    \/ CsvEmitRow
    \/ CsvReturn
    \/ XlsxLoad
    \/ XlsxSkipRow
    \/ XlsxEmitRow
    \/ XlsxReturn

Spec == Init /\ [][Next]_vars

\* short paragraphs of each kind: a question, a marked answer, a short
\* answer, a continuation
LiveLines ==
    { "Why?",
      "- a",
      "Yes",
      "This sentence only explains the options listed above" }

LiveDocs == UNION {[1..n -> LiveLines] : n \in 0..MaxLiveLines}

LiveTables == UNION {[1..n -> TableRows] : n \in 0..1}

\* the requests of LiveSpec: Init over fewer contents
LiveInit ==
    /\ pc = "request"
    /\ parser = "none"
    /\ exc = ""
    /\ response = <<>>
    /\ \E u \in MainUploads \cup {<<"notes.txt", "text/plain">>} :
          /\ filename = u[1]
          /\ content_type = u[2]
          /\ LET p == ChooseParser(u[1], u[2])
             IN \/ /\ p = "docx"
                   /\ container = "ok"
                   /\ doc \in LiveDocs
                   /\ headers = <<>> /\ rows = <<>>
                \/ /\ p \in {"csv", "xlsx"}
                   /\ container = "ok"
                   /\ doc = <<>>
                   /\ headers \in HeaderRows
                   /\ rows \in LiveTables
                \/ /\ p \in {"docx", "xlsx"}
                   /\ container \in {"corrupt", "no_library"}
                   /\ doc = <<>> /\ headers = <<>> /\ rows = <<>>
                \/ /\ p = "none"
                   /\ container = "ok"
                   /\ doc = <<>> /\ headers = <<>> /\ rows = <<>>
    /\ r = 0 /\ idx_q = -1 /\ idx_a = -1 /\ out = <<>>
    /\ paragraphs = <<>> /\ i = 0 /\ current_q = <<>> /\ questions = <<>>

\* the steps of the grouping loop, lines 147-175
LoopNext ==
    \/ OuterQuestion
    \/ OuterSkip
    \/ InnerBreak
    \/ InnerAnswer
    \/ InnerContinuation
    \/ InnerExhausted
    \/ FinalFlush

\* the loop runs in the one thread that serves the request, with nothing to
\* wait for: a step of the loop that can be taken is taken
LiveSpec == LiveInit /\ [][Next]_vars /\ WF_vars(LoopNext)

\* ------------------------------------------------------------------------
\* Vocabulary of the properties
\* ------------------------------------------------------------------------
\* the records the running parser has emitted
Emitted == IF parser = "docx" THEN questions ELSE out

Finished == pc = "done"

\* the lines the grouping engine takes as the start of a question
QuestionStarts == {k \in 1..Len(paragraphs) : looks_like_question(paragraphs[k])}

StartsUpTo(n) == {k \in QuestionStarts : k <= n}

\* the line of the k-th question start
KthStart(k) == CHOOSE j \in QuestionStarts : Cardinality(StartsUpTo(j)) = k

\* the line matches one of ANSWER_PREFIX_PATTERNS
HasAnswerPrefix(line) ==
    \E n \in 1..Len(ANSWER_PREFIX_PATTERNS) : Search(ANSWER_PREFIX_PATTERNS[n], line)

\* the line matches one of QUESTION_PATTERNS
HasQuestionPrefix(line) ==
    \E n \in 1..Len(QUESTION_PATTERNS) : Search(QUESTION_PATTERNS[n], line)

NoDuplicates(seq) == \A a, b \in 1..Len(seq) : a # b => seq[a] # seq[b]

\* the docx engine is about to consume the line at the cursor
AtLine == parser = "docx" /\ pc \in {"outer", "inner"} /\ i < Len(paragraphs)

\* ------------------------------------------------------------------------
\* C1: Scenario A.  The four lines "1. How satisfied are you with the
\* service?", "- Very satisfied", "- Satisfied", "- Not satisfied" yield
\* exactly one Question: that text without its number, single_choice, the
\* three answers in order, index 1.
\* ------------------------------------------------------------------------
C1_ScenarioA ==
    (parser = "docx" /\ doc = ScenarioA /\ Finished) =>
        questions = << [ text    |-> "How satisfied are you with the service?",
                         type    |-> "single_choice",
                         answers |-> <<"Very satisfied", "Satisfied", "Not satisfied">>,
                         meta    |-> [source |-> "docx", question_index |-> 1] ] >>

\* ------------------------------------------------------------------------
\* C2: Flush invariant.  When the grouping engine returns, it has emitted as
\* many Questions as there are lines it took as a question start, and no
\* question is left open: the one open at the end of the input is emitted too.
\* ------------------------------------------------------------------------
C2_FlushInvariant ==
    (parser = "docx" /\ Finished) =>
        /\ Len(questions) = Cardinality(QuestionStarts)
        /\ current_q = <<>>

\* a document whose last question is still open, with an answer collected,
\* when the input ends
C2_Witness ==
    /\ parser = "docx" /\ Finished
    /\ Len(paragraphs) = 3
    /\ QuestionStarts = {1, 2}
    /\ Len(questions) = 2
    /\ questions[2].answers # <<>>

\* ------------------------------------------------------------------------
\* C3: Classifier decision order.  While a question is open, a line that
\* matches an answer prefix pattern is consumed as an answer of the open
\* question, and starts no new question, also when it looks like a question.
\* ------------------------------------------------------------------------
C3_AnswerMarkersWin ==
    [][ (AtLine /\ current_q # <<>> /\ HasAnswerPrefix(paragraphs[i + 1]) /\ i' = i + 1)
          => /\ questions' = questions
             /\ current_q' = <<[current_q[1] EXCEPT !.answers = Append(@, paragraphs[i + 1])]>>
      ]_vars

\* ------------------------------------------------------------------------
\* C4: Numbering alone is insufficient.  A line that matches a numbering or
\* bullet pattern, does not end with "?" or ":" and holds no question keyword
\* never opens a question, whatever its length.
\* ------------------------------------------------------------------------
NumberingAlone(line) ==
    /\ HasQuestionPrefix(line)
    /\ ~EndsWith(line, "?")
    /\ ~EndsWithColon(line)
    /\ ~HasQuestionKeyword(line)

\* the step consumes the line at the cursor and opens a question with it
OpensQuestionAtLine ==
    /\ i' = i + 1
    /\ current_q' = <<[text |-> paragraphs[i + 1], answers |-> <<>>]>>

FlushStep == parser = "docx" /\ current_q # <<>> /\ Len(questions') = Len(questions) + 1

C6_IndexContiguity ==
    /\ \A k \in 1..Len(questions) : questions[k].meta.question_index = k
    /\ \A k \in 1..Len(out) : out[k].meta.question_index = k

\* a table whose first row is skipped and whose second row is emitted
C6_Witness ==
    /\ parser = "csv" /\ Finished
    /\ Len(rows) = 2
    /\ CsvQuestion(rows[1]) = ""
    /\ Len(out) = 1

\* ------------------------------------------------------------------------
\* C7: Continuation after answers goes to context.  A line that is neither a
\* question start nor an answer, met while the open question already has an
\* answer, is found in the context of that question when it is emitted.
\* ------------------------------------------------------------------------
ContextOf(q) == IF "context" \in DOMAIN q THEN q.context ELSE ""

ContinuationAfterAnswers(k) ==
    /\ ~looks_like_question(paragraphs[k])
    /\ ~looks_like_answer(paragraphs[k])
    /\ \E j \in StartsUpTo(k) :
          /\ \A m \in (j + 1)..k : m \notin QuestionStarts
          /\ \E m \in (j + 1)..(k - 1) : looks_like_answer(paragraphs[m])

C7_ContinuationToContext ==
    (parser = "docx" /\ Finished) =>
        \A k \in 1..Len(paragraphs) :
            ContinuationAfterAnswers(k) =>
                Contains(ContextOf(questions[Cardinality(StartsUpTo(k))]), paragraphs[k])

\* ------------------------------------------------------------------------
\* C8: Scenario D, context splitting.  A finalized question whose accumulated
\* text is longer than max_context_length and holds a question keyword after
\* offset 40 is emitted with the prefix before the keyword as its non-empty
\* context and a text that starts at the keyword; a text that is not longer
\* than max_context_length is emitted whole, with an empty context.
\* ------------------------------------------------------------------------
\* configuration named by the specification
max_context_length == 60

split_min_offset == 40

\* the positions of t, past the minimum offset, where a question keyword starts
KeywordsAfterOffset(t) == {k \in 1..Len(t) : k - 1 > split_min_offset /\ KeywordAt(t, k)}

C8_ContextSplit ==
    [][ FlushStep =>
          LET acc == strip_prefixes(current_q[1].text)
              rec == questions'[Len(questions')]
          IN /\ (Len(acc) > max_context_length /\ KeywordsAfterOffset(acc) # {}) =>
                    \E k \in KeywordsAfterOffset(acc) :
                        /\ ContextOf(rec) # ""
                        /\ ContextOf(rec) = clean_text(SubSeq(acc, 1, k - 1))
                        /\ rec.text = SubSeq(acc, k, Len(acc))
             /\ Len(acc) <= max_context_length =>
                    ContextOf(rec) = "" /\ rec.text = acc
      ]_vars

\* ------------------------------------------------------------------------
\* C9: Type inference.  The type of every emitted Question follows from its
\* own text and answers: open exactly when it has no answer, else
\* multi_choice exactly when the text holds a multi-choice hint, else
\* single_choice.
\* ------------------------------------------------------------------------
HasHint(text) == \E n \in 1..Len(MULTI_CHOICE_HINTS) : Contains(text, MULTI_CHOICE_HINTS[n])

C9_TypeInference ==
    \A k \in 1..Len(Emitted) :
        LET q == Emitted[k]
        IN /\ q.type \in {"open", "single_choice", "multi_choice"}
           /\ q.type = "open" <=> Len(q.answers) = 0
           /\ q.type = "multi_choice" <=> (Len(q.answers) > 0 /\ HasHint(q.text))

\* a question with a hint and no answer, and one with a hint and an answer
C9_Witness ==
    /\ Finished
    /\ \E a, b \in 1..Len(Emitted) :
          /\ HasHint(Emitted[a].text) /\ Emitted[a].type = "open"
          /\ Emitted[b].type = "multi_choice"

\* ------------------------------------------------------------------------
\* C10: Scenario C, emission ordering.  The open question is emitted before
\* the next one is opened, so the emitted and the open questions together are
\* always the question starts consumed so far, the k-th emitted Question is
\* the one of the k-th question start, and a question start followed at once
\* by another yields a Question with no answers and type open.
\* ------------------------------------------------------------------------
\* the text of the question opened at line j, after the continuation lines
\* that precede its first answer (m is the next line to look at)
RECURSIVE AccumulatedText(_, _)
AccumulatedText(text, m) ==
    IF \/ m > Len(paragraphs)
       \/ looks_like_question(paragraphs[m])
       \/ looks_like_answer(paragraphs[m])
    THEN text
    ELSE AccumulatedText(clean_text(text \o " " \o paragraphs[m]), m + 1)

C10_EmissionOrder ==
    (parser = "docx" /\ pc # "start") =>
        /\ Len(current_q) <= 1
        /\ Len(questions) + Len(current_q) = Cardinality(StartsUpTo(i))
        /\ \A k \in 1..Len(questions) :
              LET j == KthStart(k)
              IN /\ questions[k].text = strip_prefixes(AccumulatedText(paragraphs[j], j + 1))
                 /\ (j + 1) \in QuestionStarts =>
                       questions[k] = [ text    |-> strip_prefixes(paragraphs[j]),
                                        type    |-> "open",
                                        answers |-> <<>>,
                                        meta    |-> [source |-> "docx", question_index |-> k] ]

\* two question lines in a row, both emitted
C10_Witness ==
    /\ parser = "docx" /\ Finished
    /\ {1, 2} \subseteq QuestionStarts
    /\ Len(questions) >= 2
    /\ questions[1].answers = <<>> /\ questions[2].meta.question_index = 2

\* ---------------------------------------------------------------------------
\* C11
\* ---------------------------------------------------------------------------

\* the lines before the first question start
LeadingNoise == {k \in 1..Len(paragraphs) : StartsUpTo(k) = {}}

\* the text of line k is part of no line from the first question start on
NotRepeatedLater(k) ==
    \A j \in 1..Len(paragraphs) :
        j \notin LeadingNoise => ~Contains(paragraphs[j], paragraphs[k])

\* the text t is part of no text and of no answer of an emitted Question
InNoField(t) ==
    \A n \in 1..Len(questions) :
        /\ ~Contains(questions[n].text, t)
        /\ \A a \in 1..Len(questions[n].answers) : ~Contains(questions[n].answers[a], t)

\* the engine consumes a line that starts no question while no question is open
NoiseStep ==
    /\ AtLine
    /\ current_q = <<>>
    /\ ~looks_like_question(paragraphs[i + 1])

\* C11: leading noise is discarded.  A line that is not a question start and
\* is consumed while no question is open leaves the open question (none) and
\* the emitted Questions as they were, only the cursor moves past it; when the
\* engine returns, the text of such a line is in no text and no answer of an
\* emitted Question (unless a later line contains the same text); and Scenario
\* B, "Some unrelated heading" then "2. What is your name?", yields exactly one
\* Question: "What is your name?", open, no answers.
C11_LeadingNoiseDiscarded ==
    /\ [][ NoiseStep =>
             /\ i' = i + 1
             /\ pc' = pc
             /\ current_q' = <<>>
             /\ questions' = questions ]_vars
    /\ []( (parser = "docx" /\ Finished) =>
             \A k \in LeadingNoise : NotRepeatedLater(k) => InNoField(paragraphs[k]) )
    /\ []( (parser = "docx" /\ doc = ScenarioB /\ Finished) =>
             questions = << [ text    |-> "What is your name?",
                              type    |-> "open",
                              answers |-> <<>>,
                              meta    |-> [source |-> "docx", question_index |-> 1] ] >> )

\* two lines of noise, then a question with an answer, all consumed
C11_Witness ==
    /\ parser = "docx" /\ Finished
    /\ Len(paragraphs) = 3
    /\ LeadingNoise = {1, 2}
    /\ NotRepeatedLater(1)
    /\ Len(questions) = 1

\* ---------------------------------------------------------------------------
\* C12
\* ---------------------------------------------------------------------------

\* C12: prefix stripping is idempotent: stripping an already stripped line
\* changes nothing, for every line the engine reads, lines that start with
\* several stacked markers included.
C12_StripIdempotent ==
    \A k \in 1..Len(paragraphs) :
        strip_prefixes(strip_prefixes(paragraphs[k])) = strip_prefixes(paragraphs[k])

\* ---------------------------------------------------------------------------
\* C13
\* ---------------------------------------------------------------------------

\* every text the parsers pass to clean_text as it arrives: the paragraphs of
\* the document, the header cells and the cells of the rows
RawTexts ==
    {doc[k] : k \in 1..Len(doc)}
        \cup {headers[k] : k \in 1..Len(headers)}
        \cup UNION { {rows[n][k] : k \in 1..Len(rows[n])} : n \in 1..Len(rows) }

\* s has no whitespace other than single spaces between other characters
Normalized(s) ==
    /\ \A k \in 1..Len(s) : IsSpace(Ch(s, k)) => Ch(s, k) = " "
    /\ \A k \in 1..(Len(s) - 1) : ~(Ch(s, k) = " " /\ Ch(s, k + 1) = " ")
    /\ s # "" => (Ch(s, 1) # " " /\ Ch(s, Len(s)) # " ")

\* C13: normalization is total and idempotent.  clean_text gives "" for the
\* empty text, and for every text x a parser is given (looked at when the
\* parser starts and while the grouping loop scans), clean_text(x) has its
\* non-breaking spaces replaced, its whitespace runs collapsed to one space and
\* its ends trimmed, and clean_text(clean_text(x)) = clean_text(x).
C13_CleanIdempotent ==
    pc \in {"start", "outer"} =>
        /\ clean_text("") = ""
        /\ \A x \in RawTexts :
              /\ Normalized(clean_text(x))
              /\ clean_text(clean_text(x)) = clean_text(x)
              /\ Normalized(x) => clean_text(x) = x

\* the paragraphs with tabs and non-breaking spaces, cleaned, the one of
\* whitespace only dropped
C13_Witness ==
    /\ parser = "docx"
    /\ pc = "outer"
    /\ doc = ScenarioSpaces
    /\ ~Normalized(doc[1]) /\ ~Normalized(doc[2]) /\ ~Normalized(doc[3])
    /\ paragraphs = << "2. What is your name?", "- Yes" >>

\* ---------------------------------------------------------------------------
\* C14
\* ---------------------------------------------------------------------------

\* the grouping engine has the paragraphs and is running or has run
EngineStarted ==
    parser = "docx" /\ container = "ok" /\ pc \in {"outer", "inner", "done", "responded"}

\* C14: graceful degradation.  When no line of the document is taken as a
\* question start, the empty document included, the grouping engine raises
\* nothing, opens no question and emits nothing: it returns the empty
\* sequence, and the response is "parsed" with no question.
C14_GracefulDegradation ==
    (EngineStarted /\ QuestionStarts = {}) =>
        /\ exc = ""
        /\ current_q = <<>>
        /\ questions = <<>>
        /\ pc # "inner"
        /\ response # <<>> =>
              /\ response[1].status_code = 200
              /\ response[1].content.questions = <<>>
              /\ response[1].content.questions_count = 0

\* three lines, none a question start, all consumed and answered
C14_Witness ==
    /\ EngineStarted
    /\ Len(paragraphs) = 3
    /\ QuestionStarts = {}
    /\ i = 3
    /\ response # <<>>

\* ---------------------------------------------------------------------------
\* C15
\* ---------------------------------------------------------------------------

\* the engine consumes, for an open question without answers, a line that is
\* no question start and matches no answer prefix pattern
UnmarkedLineStep ==
    /\ AtLine
    /\ pc = "inner"
    /\ current_q # <<>>
    /\ current_q[1].answers = <<>>
    /\ ~looks_like_question(paragraphs[i + 1])
    /\ ~HasAnswerPrefix(paragraphs[i + 1])

\* the line at the cursor is joined to the text of the open question
JoinedToText ==
    /\ questions' = questions
    /\ current_q' # <<>>
    /\ current_q'[1].text = clean_text(current_q[1].text \o " " \o paragraphs[i + 1])
    /\ current_q'[1].answers = current_q[1].answers

\* the line at the cursor is collected as an answer of the open question
CollectedAsAnswer ==
    /\ questions' = questions
    /\ current_q' # <<>>
    /\ current_q'[1].text = current_q[1].text
    /\ current_q'[1].answers = Append(current_q[1].answers, paragraphs[i + 1])

\* C15: wrapped question text.  While a question is open with no answer
\* collected, every line that is no question start and matches no answer
\* prefix pattern is joined to the text of the open question, whatever its
\* length, and is never added to the answers.
C15_WrappedText ==
    [][ UnmarkedLineStep => JoinedToText ]_vars

\* C15, amended: such a line is joined to the text only when it is longer
\* than 40 characters or ends with "?"; a line of at most 40 characters that
\* does not end with "?" is collected as an answer and the text stays.
C15_LongLinesWrap ==
    [][ UnmarkedLineStep =>
          IF Len(paragraphs[i + 1]) > 40 \/ EndsWith(paragraphs[i + 1], "?")
          THEN JoinedToText
          ELSE CollectedAsAnswer ]_vars

\* a question wrapped over three paragraphs, a short and a long one joined
C15_Witness ==
    /\ AtLine
    /\ pc = "inner"
    /\ current_q # <<>>
    /\ current_q[1].answers = <<>>
    /\ current_q[1].text =
          "2. What is your name? a? This sentence only explains the options listed above"
    /\ paragraphs[i + 1] = "Yes"

\* ---------------------------------------------------------------------------
\* C16
\* ---------------------------------------------------------------------------

\* a step that leaves open the question that has answers already
StaysOpenWithAnswers ==
    /\ parser = "docx"
    /\ current_q # <<>>
    /\ current_q[1].answers # <<>>
    /\ current_q' # <<>>
    /\ questions' = questions

\* C16: the question text is frozen once answers exist.  No step that leaves
\* open a question that has an answer changes its text, and the text emitted
\* when the question is finalized is that text with its prefixes stripped: it
\* comes from the question start line and the continuation lines before the
\* first answer only.
C16_TextFrozen ==
    /\ [][ StaysOpenWithAnswers => current_q'[1].text = current_q[1].text ]_vars
    /\ [][ FlushStep =>
             questions'[Len(questions')].text = strip_prefixes(current_q[1].text) ]_vars

\* prose after the answer of a wrapped question has been consumed and the
\* text is still the one joined before the answer
C16_Witness ==
    /\ parser = "docx"
    /\ doc = ScenarioWrap
    /\ pc = "inner"
    /\ i = 6
    /\ current_q # <<>>
    /\ current_q[1].answers = <<"Yes">>
    /\ current_q[1].text =
          "2. What is your name? a? This sentence only explains the options listed above"

\* ---------------------------------------------------------------------------
\* C17
\* ---------------------------------------------------------------------------

\* the last line of the segment of the k-th question start: the line before
\* the next question start, or the last line
SegmentEnd(k) ==
    LET j == KthStart(k)
        later == {m \in QuestionStarts : m > j}
    IN IF later = {} THEN Len(paragraphs)
       ELSE (CHOOSE m \in later : \A n \in later : m <= n) - 1

\* the lines lo..hi that look like an answer, in order
RECURSIVE SegmentAnswers(_, _)
SegmentAnswers(lo, hi) ==
    IF lo > hi THEN <<>>
    ELSE (IF looks_like_answer(paragraphs[lo]) THEN <<paragraphs[lo]>> ELSE <<>>)
            \o SegmentAnswers(lo + 1, hi)

\* the Question that the lines of the k-th segment alone determine
SegmentRecord(k) ==
    LET j == KthStart(k)
        answers == AnswersClean(SegmentAnswers(j + 1, SegmentEnd(k)), <<>>, {})
        text == strip_prefixes(AccumulatedText(paragraphs[j], j + 1))
    IN [ text    |-> text,
         type    |-> infer_question_type(text, answers),
         answers |-> answers,
         meta    |-> [source |-> "docx", question_index |-> k] ]

\* the engine is at a line that starts a question
QuestionStartStep == AtLine /\ looks_like_question(paragraphs[i + 1])

\* C17: each line is consumed once and attributed to at most one Question.
\* The cursor never moves back and passes one line at a time; an emitted
\* Question is never changed afterwards; a line that starts a question is
\* either left in place for the outer loop, nothing recorded, or it opens a
\* new question while the previous one is emitted as it stood, without that
\* line; and every emitted Question is the one determined by the lines from
\* its own question start up to the next question start, and by no other line.
C17_LineAttribution ==
    /\ [][ parser = "docx" =>
             /\ i' \in {i, i + 1}
             /\ Len(questions') >= Len(questions)
             /\ SubSeq(questions', 1, Len(questions)) = questions ]_vars
    /\ [][ QuestionStartStep =>
             \/ /\ i' = i
                /\ current_q' = current_q
                /\ questions' = questions
             \/ /\ i' = i + 1
                /\ current_q' = << [text |-> paragraphs[i + 1], answers |-> <<>>] >>
                /\ questions' = IF current_q = <<>> THEN questions
                                ELSE Append(questions, DocxRecord(current_q[1], questions)) ]_vars
    /\ []( EngineStarted =>
             \A k \in 1..Len(questions) : questions[k] = SegmentRecord(k) )

\* two questions; the line between them is an answer of the first only
C17_Witness ==
    /\ parser = "docx" /\ Finished
    /\ Len(paragraphs) = 3
    /\ QuestionStarts = {1, 3}
    /\ Len(questions) = 2
    /\ Len(questions[1].answers) = 1
    /\ questions[2].answers = <<>>

\* ---------------------------------------------------------------------------
\* C18
\* ---------------------------------------------------------------------------

\* the grouping loop is running: the paragraphs are read, the final flush is
\* not done yet
InLoop == parser = "docx" /\ pc \in {"outer", "inner"}

\* the steps the grouping loop can still take: two for every line left (the
\* inner loop may leave a question line to the outer loop), one to leave the
\* inner loop, one for the final flush
StepsLeft ==
    IF InLoop
    THEN 2 * (Len(paragraphs) - i) + (IF pc = "inner" THEN 1 ELSE 0) + 1
    ELSE 0

\* C18: termination.  Every step of the grouping loop lowers the number of
\* steps left, which is at most twice the number of lines plus one, so the
\* steps are bounded by the length of the input; an iteration of the outer
\* loop that has a line moves the cursor past it, also when the inner loop
\* breaks without advancing; and the loop, once the paragraphs are read,
\* always ends: the cursor is past the last line, the final flush is done
\* and no question is left open.
C18_Termination ==
    /\ []( InLoop => (i <= Len(paragraphs) /\ StepsLeft <= 2 * Len(paragraphs) + 1) )
    /\ [][ InLoop => StepsLeft' < StepsLeft ]_vars
    /\ [][ (InLoop /\ pc = "outer" /\ i < Len(paragraphs)) => i' = i + 1 ]_vars
    /\ InLoop ~> ( parser = "docx" /\ Finished /\ i = Len(paragraphs)
                   /\ current_q = <<>>
                   /\ Len(questions) = Cardinality(QuestionStarts) )

\* the inner loop has just left a question line to the outer loop, with
\* lines still to read
C18_Witness ==
    /\ InLoop
    /\ pc = "outer"
    /\ current_q # <<>>
    /\ i = 2
    /\ Len(paragraphs) = 3
    /\ StepsLeft = 3

\* ---------------------------------------------------------------------------
\* C19
\* ---------------------------------------------------------------------------

\* C19: answer uniqueness for tabular sources.  Every Question that
\* parse_csv_questions or parse_xlsx_questions produces has pairwise distinct
\* answers, also when the answers cell lists an option more than once between
\* ";" or "|".
C19_TableAnswerUniqueness ==
    parser \in {"csv", "xlsx"} =>
        \A k \in 1..Len(out) : NoDuplicates(out[k].answers)

\* ---------------------------------------------------------------------------
\* C20
\* ---------------------------------------------------------------------------

\* no parser has run: every variable the parsers write has its initial value
NoParserInvoked ==
    /\ parser = "none"
    /\ paragraphs = <<>> /\ i = 0 /\ current_q = <<>> /\ questions = <<>>
    /\ r = 0 /\ idx_q = -1 /\ idx_a = -1 /\ out = <<>>

\* C20: a request gets exactly one response, and it is exactly one of three:
\* the 400 error when neither the extension nor the content type selects a
\* parser, and then no parser was invoked; the 500 error with the message of
\* the exception when the selected parser raised; otherwise the "parsed"
\* response with the questions the parser returned and questions_count equal
\* to their number.
C20_EndpointOutcomes ==
    /\ Len(response) <= 1
    /\ (response # <<>>) <=> (pc = "responded")
    /\ response # <<>> =>
          LET code == response[1].status_code
              body == response[1].content
              sel  == ChooseParser(filename, content_type)
          IN /\ code \in {200, 400, 500}
             /\ body.filename = FilenameOf(filename)
             /\ body.content_type = content_type
             /\ (code = 400) <=> (sel = "none")
             /\ (code = 500) <=> (sel # "none" /\ container # "ok")
             /\ code = 400 =>
                   /\ body.status = "error"
                   /\ body.message = "Unsupported file type. Please upload DOCX/CSV/XLSX."
                   /\ NoParserInvoked
             /\ code = 500 =>
                   /\ body.status = "error"
                   /\ parser = sel
                   /\ exc = ErrorMessage(parser, container)
                   /\ body.message = exc
             /\ code = 200 =>
                   /\ body.status = "parsed"
                   /\ parser = sel
                   /\ exc = ""
                   /\ body.questions = Emitted
                   /\ body.questions_count = Len(body.questions)

\* a parsed response that carries two questions
C20_Witness ==
    /\ response # <<>>
    /\ response[1].status_code = 200
    /\ response[1].content.questions_count = 2
    /\ Len(paragraphs) = 3

====
